---- MODULE Spec2Model ----
(***************************************************************************)
(* The client-side session protocol of the control center front end: the   *)
(* Live Console component (src/unnamed/part_000) and the control panel      *)
(* page (src/unnamed/part_001) with its HTTP client (src/unnamed/part_002). *)
(*                                                                         *)
(* Each component instance owns its refs and its sockets and shares        *)
(* nothing with the other, so a behaviour follows ONE instance: Init picks *)
(* the component, and only that component's handlers run.  A step is one   *)
(* run-to-completion handler of the browser's event loop: a transport      *)
(* callback, a user event, or the completion of an HTTP request.           *)
(*                                                                         *)
(* The handlers are modelled as the script defines them.  The template's   *)
(* :disabled / v-if bindings are presentation and are not guards of the    *)
(* handlers.                                                               *)
(***************************************************************************)
EXTENDS Integers, Sequences, FiniteSets, TLC

VARIABLES
    component,      \* "console" (part_000) or "panel" (part_001)
    readyState,     \* readyState of the instance's WebSockets, oldest first
    ws,             \* ws.value: the socket held (its place in readyState), 0 for null
    sessionState,   \* sessionState.value: "idle" | "running" | "exited"
    isConnected,    \* console: isConnected.value
    scriptName,     \* console: scriptName.value, Null or Some(name)
    exitCode,       \* console: exitCode.value, Null or Some(code)
    lines,          \* console: lines.value, the log entries
    stdinData,      \* console: stdinData.value (v-model of the input)
    selectedScript, \* console: selectedScript.value (v-model of the select)
    mounted,        \* panel: whether onMounted has run
    isWsConnected,  \* panel: isWsConnected.value
    status,         \* panel: status.value
    loadingAction,  \* panel: loadingAction.value, Null or Some(name)
    lastResponse,   \* panel: lastResponse.value, Null or Some(response)
    inflight,       \* panel: getStatus() requests awaiting their response
    latest,         \* panel: the getStatus() request issued last: "none",
                    \* "pending", or the status its response came to
    term,           \* panel: what the last handler handed to the xterm widget
    sent,           \* the frames the last handler handed to WebSocket.send
    uncaught        \* whether the last handler ended in an uncaught exception

vars == <<component, readyState, ws, sessionState, isConnected, scriptName,
          exitCode, lines, stdinData, selectedScript, mounted, isWsConnected,
          status, loadingAction, lastResponse, inflight, latest, term, sent,
          uncaught>>

(***************************************************************************)
(* Bounds of the model.                                                    *)
(***************************************************************************)
MaxTransports == 2   \* sockets of one instance that exist at a time
MaxLog == 2          \* entries of lines.value
MaxInflight == 2     \* status queries awaiting their response

Null == <<>>
Some(v) == <<v>>

(***************************************************************************)
(* Configuration: runtimeConfig.public.apiUrl and the socket URL derived   *)
(* from it by apiUrl.replace(/^http/, 'ws') + '/ws/exec'.                  *)
(***************************************************************************)
apiUrlAfterScheme == "://feet-confirm.gl.at.ply.gg:51429"
apiUrl == "http" \o apiUrlAfterScheme
wsUrl == "ws" \o apiUrlAfterScheme \o "/ws/exec"

allowedScripts == {"start", "update"}
Inputs == {"", "say hi"}
TermKeys == {"s", "\r"}

(***************************************************************************)
(* Inbound frames: the raw texts the backend may deliver, and JSON.parse   *)
(* of each.  A parsed value is [t |-> "null"] or an object with its own    *)
(* fields; ok = FALSE stands for the SyntaxError JSON.parse throws.        *)
(***************************************************************************)
RawNotJson == "{not json"
RawNull == "null"
RawNoType == "{}"
RawBogus == "{\"type\":\"bogus\"}"
RawReady == "{\"type\":\"ready\"}"
RawStartedStart == "{\"type\":\"started\",\"script\":\"start\"}"
RawStartedUpdate == "{\"type\":\"started\",\"script\":\"update\"}"
RawStdout == "{\"type\":\"stdout\",\"data\":\"Server started\\n\"}"
RawStderr == "{\"type\":\"stderr\",\"data\":\"warn\"}"
RawExit == "{\"type\":\"exit\",\"code\":0}"
RawError == "{\"type\":\"error\",\"message\":\"spawn failed\",\"detail\":\"ENOENT\"}"

ValidFrames == {RawReady, RawStartedStart, RawStartedUpdate, RawStdout,
                RawStderr, RawExit, RawError}
RawFrames == ValidFrames \cup {RawNotJson, RawNull, RawNoType, RawBogus}

Object(o) == [ok |-> TRUE, t |-> "object", o |-> o]

JSONparse(raw) ==
    CASE raw = RawNull -> [ok |-> TRUE, t |-> "null", o |-> <<>>]
      [] raw = RawNoType -> Object(<<>>)
      [] raw = RawBogus -> Object([type |-> "bogus"])
      [] raw = RawReady -> Object([type |-> "ready"])
      [] raw = RawStartedStart -> Object([type |-> "started", script |-> "start"])
      [] raw = RawStartedUpdate -> Object([type |-> "started", script |-> "update"])
      [] raw = RawStdout -> Object([type |-> "stdout", data |-> "Server started\n"])
      [] raw = RawStderr -> Object([type |-> "stderr", data |-> "warn"])
      [] raw = RawExit -> Object([type |-> "exit", code |-> 0])
      [] raw = RawError -> Object([type |-> "error", message |-> "spawn failed",
                                   detail |-> "ENOENT"])
      [] OTHER -> [ok |-> FALSE, t |-> "SyntaxError", o |-> <<>>]

\* msg.f of a parsed object: whether the field is there, and a template
\* literal's rendering ${msg.f} of it ("undefined" when it is not).
Has(msg, f) == f \in DOMAIN msg
Render(msg, f) ==
    IF ~Has(msg, f) THEN "undefined"
    ELSE IF f = "code" THEN ToString(msg[f]) ELSE msg[f]
\* ${msg.f || dflt}
RenderOr(msg, f, dflt) == IF Has(msg, f) /\ msg[f] # "" THEN msg[f] ELSE dflt
\* switch (msg.type): the discriminator, "undefined" when the field is missing
TypeOf(msg) == IF Has(msg, "type") THEN msg.type ELSE "undefined"

(***************************************************************************)
(* Outbound frames: JSON.stringify of the message objects the handlers     *)
(* build.  Escape is JSON's escaping of the payload strings that occur.    *)
(***************************************************************************)
Escape(s) ==
    CASE s = "say hi\n" -> "say hi\\n"
      [] s = "stop\n" -> "stop\\n"
      [] s = "\r" -> "\\r"
      [] OTHER -> s

JSONstringify(message) ==
    CASE message.action = "start" ->
            "{\"action\":\"start\",\"script\":\"" \o Escape(message.script) \o "\"}"
      [] message.action = "stdin" ->
            "{\"action\":\"stdin\",\"data\":\"" \o Escape(message.data) \o "\"}"
      [] message.action = "kill" -> "{\"action\":\"kill\"}"

(***************************************************************************)
(* WebSocket objects, in the order they were created.  A CLOSED socket     *)
(* delivers no further event; once ws.value no longer holds it nothing     *)
(* refers to it and it is dropped from readyState.                         *)
(***************************************************************************)
RemoveAt(seq, i) == SubSeq(seq, 1, i - 1) \o SubSeq(seq, i + 1, Len(seq))

\* WebSocket.close(): CONNECTING and OPEN go to CLOSING, else nothing happens
WsClose(rs, t) ==
    IF t # 0 /\ rs[t] \in {"CONNECTING", "OPEN"} THEN [rs EXCEPT ![t] = "CLOSING"] ELSE rs

Entry(type, data) == [type |-> type, data |-> data]

(***************************************************************************)
(* A handler is a function from the instance's state as it finds it to the *)
(* state as it leaves it.  Cur is the state found, Begin the same with the *)
(* per-handler observations (sent, term, uncaught) empty, and Commit(r)    *)
(* makes r the next state.                                                 *)
(***************************************************************************)
Cur ==
    [readyState |-> readyState, ws |-> ws, sessionState |-> sessionState,
     isConnected |-> isConnected, scriptName |-> scriptName, exitCode |-> exitCode,
     lines |-> lines, stdinData |-> stdinData, selectedScript |-> selectedScript,
     mounted |-> mounted, isWsConnected |-> isWsConnected, status |-> status,
     loadingAction |-> loadingAction, lastResponse |-> lastResponse,
     inflight |-> inflight, latest |-> latest, term |-> term, sent |-> sent,
     uncaught |-> uncaught]

Begin == [Cur EXCEPT !.sent = <<>>, !.term = <<>>, !.uncaught = FALSE]

WithinBounds(r) ==
    /\ Len(r.lines) <= MaxLog
    /\ r.inflight <= MaxInflight

Commit(r) ==
    /\ WithinBounds(r)
    /\ component' = component
    /\ readyState' = r.readyState
    /\ ws' = r.ws
    /\ sessionState' = r.sessionState
    /\ isConnected' = r.isConnected
    /\ scriptName' = r.scriptName
    /\ exitCode' = r.exitCode
    /\ lines' = r.lines
    /\ stdinData' = r.stdinData
    /\ selectedScript' = r.selectedScript
    /\ mounted' = r.mounted
    /\ isWsConnected' = r.isWsConnected
    /\ status' = r.status
    /\ loadingAction' = r.loadingAction
    /\ lastResponse' = r.lastResponse
    /\ inflight' = r.inflight
    /\ latest' = r.latest
    /\ term' = r.term
    /\ sent' = r.sent
    /\ uncaught' = r.uncaught

\* ws.value && ws.value.readyState === WebSocket.OPEN
WsIsOpen(s) == s.ws # 0 /\ s.readyState[s.ws] = "OPEN"

\* ws.value.send(text)
WsSend(s, text) == [s EXCEPT !.sent = Append(@, [socket |-> s.ws, text |-> text])]

\* The sockets that remain once ws.value lets go of the socket it holds
Released(s) ==
    IF s.ws # 0 /\ s.readyState[s.ws] = "CLOSED"
    THEN RemoveAt(s.readyState, s.ws)
    ELSE s.readyState

\* new WebSocket(wsUrl), assigned to ws.value
WsNew(s) ==
    [s EXCEPT !.readyState = Append(Released(s), "CONNECTING"),
              !.ws = Len(Released(s)) + 1]

\* The browser closes socket t: readyState CLOSED, before its callbacks run
WsClosed(s, t) ==
    IF t = s.ws
    THEN [s EXCEPT !.readyState[t] = "CLOSED"]
    ELSE [s EXCEPT !.readyState = RemoveAt(@, t),
                   !.ws = IF @ > t THEN @ - 1 ELSE @]

(***************************************************************************)
(* The Live Console component (src/unnamed/part_000).                      *)
(***************************************************************************)
addLog(s, type, data) == [s EXCEPT !.lines = Append(@, Entry(type, data))]

\* (variant: sends on whatever socket is held, without looking at readyState)
sendWsMessage_anyReadyState(s, message) ==
    IF s.ws # 0
    THEN WsSend(s, JSONstringify(message))
    ELSE addLog(s, "error", "WebSocket is not connected.")

sendWsMessage(s, message) ==
    IF WsIsOpen(s)
    THEN WsSend(s, JSONstringify(message))
    ELSE addLog(s, "error", "WebSocket is not connected.")

\* (variant: a frame that does not parse also resets the session)
handleMessage_catch_resets(s, rawData) ==
    addLog([s EXCEPT !.sessionState = "idle"],
           "error", "Failed to parse JSON: " \o rawData)

handleMessage_catch(s, rawData) ==
    addLog(s, "error", "Failed to parse JSON: " \o rawData)

handleMessage_switch(s, msg) ==
    CASE TypeOf(msg) = "ready" ->
            addLog([s EXCEPT !.sessionState = "idle"],
                   "info", "Console ready. Select a script to start.")
      [] TypeOf(msg) = "started" ->
            addLog([s EXCEPT !.sessionState = "running",
                             !.scriptName = Some(msg.script),
                             !.exitCode = Null],
                   "info", "--- Started script: " \o Render(msg, "script") \o " ---")
      [] TypeOf(msg) = "stdout" -> addLog(s, "stdout", msg.data)
      [] TypeOf(msg) = "stderr" -> addLog(s, "stderr", msg.data)
      [] TypeOf(msg) = "exit" ->
            addLog([s EXCEPT !.sessionState = "exited", !.exitCode = Some(msg.code)],
                   "info", "--- Process exited with code " \o Render(msg, "code")
                           \o " (Signal: " \o RenderOr(msg, "signal", "none") \o ") ---")
      [] TypeOf(msg) = "error" ->
            addLog(s, "error", "[BACKEND ERROR] " \o Render(msg, "message")
                               \o "\nDetail: " \o RenderOr(msg, "detail", ""))
      [] OTHER -> addLog(s, "error", "Unknown message type: " \o Render(msg, "type"))

\* (variant: the name of the script is not kept)
handleMessage_forgetsScript(s, rawData) ==
    LET parsed == JSONparse(rawData)
    IN  IF ~parsed.ok THEN handleMessage_catch(s, rawData)
        ELSE IF parsed.t = "null" THEN [s EXCEPT !.uncaught = TRUE]
        ELSE [handleMessage_switch(s, parsed.o) EXCEPT !.scriptName = Null]

\* msg.type of null is a TypeError outside the try block: the handler ends
\* there, having changed nothing.
handleMessage(s, rawData) ==
    LET parsed == JSONparse(rawData)
    IN  IF ~parsed.ok THEN handleMessage_catch(s, rawData)
        ELSE IF parsed.t = "null" THEN [s EXCEPT !.uncaught = TRUE]
        ELSE handleMessage_switch(s, parsed.o)

connect_onopen(s) == [s EXCEPT !.isConnected = TRUE]

\* (variant: a closed transport is replaced by a new one at once)
connect_onclose_retries(s) ==
    WsNew(addLog([s EXCEPT !.isConnected = FALSE, !.sessionState = "idle",
                           !.scriptName = Null],
                 "info", "WebSocket Disconnected."))

connect_onclose(s) ==
    addLog([s EXCEPT !.isConnected = FALSE, !.sessionState = "idle", !.scriptName = Null],
           "info", "WebSocket Disconnected.")

connect_onerror(s) == addLog(s, "error", "WebSocket connection error.")

connect_onmessage(s, data) == handleMessage(s, data)

\* (variant: opens the new socket and leaves the one held as it is)
connect_keepsOld(s) == WsNew(addLog(s, "info", "Connecting to " \o wsUrl \o "..."))

connect(s) ==
    LET closed == [s EXCEPT !.readyState = WsClose(@, s.ws)]
    IN  WsNew(addLog(closed, "info", "Connecting to " \o wsUrl \o "..."))

disconnect(s) == [s EXCEPT !.readyState = WsClose(@, s.ws)]

\* (variant: takes the process for gone as soon as kill is sent)
killProcess_optimistic(s) ==
    IF s.sessionState # "running" THEN s
    ELSE [sendWsMessage(addLog(s, "info", "Sending KILL signal..."), [action |-> "kill"])
            EXCEPT !.sessionState = "exited"]

killProcess(s) ==
    IF s.sessionState # "running" THEN s
    ELSE sendWsMessage(addLog(s, "info", "Sending KILL signal..."), [action |-> "kill"])

\* (variant: waits with the start until the killed process has exited)
startScript_deferred(s, confirmed) ==
    IF s.sessionState = "running" /\ ~confirmed THEN s
    ELSE IF s.sessionState = "running" THEN [killProcess(s) EXCEPT !.lines = <<>>]
    ELSE sendWsMessage([s EXCEPT !.lines = <<>>],
                       [action |-> "start", script |-> s.selectedScript])

\* (variant: goes on whatever confirm() answers)
startScript_unconfirmed(s, confirmed) ==
    LET killed == IF s.sessionState = "running" THEN killProcess(s) ELSE s
    IN  sendWsMessage([killed EXCEPT !.lines = <<>>],
                      [action |-> "start", script |-> s.selectedScript])

\* confirmed is the answer confirm() returns when it is asked
startScript(s, confirmed) ==
    IF s.sessionState = "running" /\ ~confirmed THEN s
    ELSE LET killed == IF s.sessionState = "running" THEN killProcess(s) ELSE s
         IN  sendWsMessage([killed EXCEPT !.lines = <<>>],
                           [action |-> "start", script |-> s.selectedScript])

sendStdin(s) ==
    IF s.sessionState # "running" \/ s.stdinData = "" THEN s
    ELSE LET data == s.stdinData \o "\n"
             posted == sendWsMessage(s, [action |-> "stdin", data |-> data])
         IN  [addLog(posted, "info", "> " \o s.stdinData) EXCEPT !.stdinData = ""]

(***************************************************************************)
(* The HTTP client (src/unnamed/part_002).  An outcome is what the fetch   *)
(* of GET /api/status comes to: a status code with the body, or http = 0   *)
(* when no response arrived.  getStatus turns it into an ApiResponse.      *)
(***************************************************************************)
Outcomes ==
    {[http |-> 200, statusText |-> "OK", data |-> [status |-> "active"]],
     [http |-> 200, statusText |-> "OK", data |-> [status |-> "inactive"]],
     [http |-> 500, statusText |-> "Internal Server Error",
      data |-> [error |-> "status failed", details |-> "systemctl exited 1"]],
     [http |-> 0, statusText |-> "", data |-> <<>>]}

onResponseError(response) ==
    [ok |-> FALSE,
     status |-> response.http,
     error |-> RenderOr(response.data, "error", response.statusText),
     details |-> RenderOr(response.data, "details",
                          "No error details provided by backend.")]

\* catch (err) { return err as ApiErrorResponse }: what was thrown is returned
\* as it is; a FetchError of a request that got no response has no ok field.
getStatus(outcome) ==
    IF outcome.http = 200 THEN [ok |-> TRUE, data |-> outcome.data]
    ELSE IF outcome.http = 0 THEN [name |-> "FetchError", message |-> "fetch failed"]
    ELSE onResponseError(outcome)

\* if (response.ok)
ResponseOk(response) == Has(response, "ok") /\ response.ok

(***************************************************************************)
(* The control panel page (src/unnamed/part_001).  term is null until      *)
(* initializeTerminal has run (mounted): term?.x() does nothing before.    *)
(***************************************************************************)
ESC == "\\x1B"
Red(text) == ESC \o "[31m" \o text \o ESC \o "[0m"
Green(text) == ESC \o "[32m" \o text \o ESC \o "[0m"
Yellow(text) == ESC \o "[33m" \o text \o ESC \o "[0m"

TermDo(s, op, data) ==
    IF s.mounted THEN [s EXCEPT !.term = Append(@, [op |-> op, data |-> data])] ELSE s
writeln(s, data) == TermDo(s, "writeln", data)
write(s, data) == TermDo(s, "write", data)
reset(s) == TermDo(s, "reset", "")

\* checkStatus up to its await: the request is on its way
checkStatus(s) ==
    [s EXCEPT !.loadingAction = Some("status"), !.inflight = @ + 1,
              !.latest = "pending"]

\* (variant: a query that fails also takes the session back to idle)
checkStatus_resume_resets(s, response) ==
    LET got == IF ResponseOk(response)
               THEN [s EXCEPT !.status = response.data.status]
               ELSE [s EXCEPT !.status = "error", !.lastResponse = Some(response),
                              !.sessionState = "idle"]
    IN  [got EXCEPT !.loadingAction = Null, !.inflight = @ - 1]

\* checkStatus from its await on, with the response getStatus resolved to
checkStatus_resume(s, response) ==
    LET got == IF ResponseOk(response)
               THEN [s EXCEPT !.status = response.data.status]
               ELSE [s EXCEPT !.status = "error", !.lastResponse = Some(response)]
    IN  [got EXCEPT !.loadingAction = Null, !.inflight = @ - 1]

panel_sendWsMessage(s, message) ==
    IF WsIsOpen(s)
    THEN WsSend(s, JSONstringify(message))
    ELSE writeln(s, "\r\n" \o Red("[Error] WebSocket is not connected."))

handleWsMessage_catch(s, rawData) ==
    writeln(s, "\r\n" \o Red("[ERROR] Failed to parse JSON: " \o rawData))

handleWsMessage_switch(s, msg) ==
    CASE TypeOf(msg) = "ready" ->
            writeln([s EXCEPT !.sessionState = "idle"],
                    "\r\n" \o Green("Console is ready."))
      [] TypeOf(msg) = "started" ->
            writeln([s EXCEPT !.sessionState = "running"],
                    "\r\n" \o Yellow("--- Starting script: " \o Render(msg, "script")
                                     \o " ---") \o "\r\n")
      [] TypeOf(msg) = "stdout" -> write(s, msg.data)
      [] TypeOf(msg) = "stderr" -> write(s, Red(Render(msg, "data")))
      [] TypeOf(msg) = "exit" ->
            checkStatus(writeln([s EXCEPT !.sessionState = "exited"],
                                "\r\n" \o Yellow("--- Process exited with code "
                                                 \o Render(msg, "code") \o " ---")))
      [] TypeOf(msg) = "error" ->
            LET shown == writeln(s, "\r\n" \o Red("[BACKEND ERROR] "
                                                  \o Render(msg, "message")))
                detailed == IF RenderOr(msg, "detail", "") # ""
                            THEN writeln(shown, Red("  Detail: " \o msg.detail))
                            ELSE shown
            IN  [detailed EXCEPT !.sessionState = "exited"]
      [] OTHER -> s

handleWsMessage(s, rawData) ==
    LET parsed == JSONparse(rawData)
    IN  IF ~parsed.ok THEN handleWsMessage_catch(s, rawData)
        ELSE IF parsed.t = "null" THEN [s EXCEPT !.uncaught = TRUE]
        ELSE handleWsMessage_switch(s, parsed.o)

connectWebSocket_onopen(s) ==
    writeln([s EXCEPT !.isWsConnected = TRUE], "\r\n" \o Green("WebSocket Connected."))

connectWebSocket_onclose(s) ==
    checkStatus(writeln([s EXCEPT !.isWsConnected = FALSE, !.sessionState = "idle"],
                        "\r\n" \o Red("WebSocket Disconnected.")))

connectWebSocket_onerror(s) == writeln(s, "\r\n" \o Red("WebSocket connection error."))

connectWebSocket_onmessage(s, data) == handleWsMessage(s, data)

connectWebSocket(s) ==
    LET closed == [s EXCEPT !.readyState = WsClose(@, s.ws)]
    IN  WsNew(writeln(closed, "Connecting to " \o wsUrl \o "..."))

initializeTerminal(s) ==
    IF s.mounted THEN s
    ELSE writeln(writeln([s EXCEPT !.mounted = TRUE],
                         "Welcome to the Minecraft Server Console!"),
                 "Connecting to backend...")

term_onData(s, data) ==
    IF s.sessionState = "running" /\ s.isWsConnected
    THEN panel_sendWsMessage(s, [action |-> "stdin", data |-> data])
    ELSE s

onStart(s) ==
    IF s.sessionState = "running" THEN s
    ELSE checkStatus(panel_sendWsMessage(reset(s), [action |-> "start",
                                                    script |-> "start-interactive"]))

\* (variant: a running script is stopped with a kill frame)
onStop_kills(s) ==
    IF s.sessionState = "running"
    THEN panel_sendWsMessage(s, [action |-> "kill"])
    ELSE panel_sendWsMessage(reset(s), [action |-> "start", script |-> "stop"])

onStop(s) ==
    IF s.sessionState = "running"
    THEN panel_sendWsMessage(s, [action |-> "stdin", data |-> "stop\n"])
    ELSE panel_sendWsMessage(reset(s), [action |-> "start", script |-> "stop"])

onRestart(s) ==
    IF s.sessionState = "running" THEN s
    ELSE panel_sendWsMessage(reset(s), [action |-> "start", script |-> "restart"])

onUpdate(s) ==
    IF s.sessionState = "running" THEN s
    ELSE panel_sendWsMessage(reset(s), [action |-> "start", script |-> "update"])

onMounted(s) == connectWebSocket(checkStatus(initializeTerminal(s)))

(***************************************************************************)
(* The state after construction: every ref at its initial value, no socket *)
(* created, nothing mounted.                                               *)
(***************************************************************************)
Init ==
    /\ component \in {"console", "panel"}
    /\ readyState = <<>>
    /\ ws = 0
    /\ sessionState = "idle"
    /\ isConnected = FALSE
    /\ scriptName = Null
    /\ exitCode = Null
    /\ lines = <<>>
    /\ stdinData = ""
    /\ selectedScript = "start"
    /\ mounted = FALSE
    /\ isWsConnected = FALSE
    /\ status = "unknown"
    /\ loadingAction = Null
    /\ lastResponse = Null
    /\ inflight = 0
    /\ latest = "none"
    /\ term = <<>>
    /\ sent = <<>>
    /\ uncaught = FALSE

(***************************************************************************)
(* Transport callbacks.  The browser delivers open to a CONNECTING socket, *)
(* message to an OPEN one, and close to any socket that is not CLOSED; a   *)
(* close of a failed connection (always so while CONNECTING) is preceded   *)
(* by error in the same task.  The callbacks are those the component set   *)
(* on the socket when it created it.                                       *)
(***************************************************************************)
onopen(s) == IF component = "console" THEN connect_onopen(s) ELSE connectWebSocket_onopen(s)
onclose(s) == IF component = "console" THEN connect_onclose(s) ELSE connectWebSocket_onclose(s)
onerror(s) == IF component = "console" THEN connect_onerror(s) ELSE connectWebSocket_onerror(s)
onmessage(s, data) ==
    IF component = "console" THEN connect_onmessage(s, data)
    ELSE connectWebSocket_onmessage(s, data)

Sockets == 1..Len(readyState)

SocketOpen(t) ==
    /\ readyState[t] = "CONNECTING"
    /\ Commit(onopen([Begin EXCEPT !.readyState[t] = "OPEN"]))

SocketMessage(t, data) ==
    /\ readyState[t] = "OPEN"
    /\ Commit(onmessage(Begin, data))

SocketClose(t, failed) ==
    /\ readyState[t] \in {"CONNECTING", "OPEN", "CLOSING"}
    /\ readyState[t] = "CONNECTING" => failed
    /\ LET closed == WsClosed(Begin, t)
       IN  Commit(onclose(IF failed THEN onerror(closed) ELSE closed))

(***************************************************************************)
(* User events of the console.                                             *)
(***************************************************************************)
Connect ==
    /\ component = "console"
    /\ Len(Released(Cur)) < MaxTransports
    /\ Commit(connect(Begin))

Disconnect ==
    /\ component = "console"
    /\ Commit(disconnect(Begin))

StartScript(confirmed) ==
    /\ component = "console"
    /\ Commit(startScript(Begin, confirmed))

SendStdin ==
    /\ component = "console"
    /\ Commit(sendStdin(Begin))

KillProcess ==
    /\ component = "console"
    /\ Commit(killProcess(Begin))

TypeInput(text) ==
    /\ component = "console"
    /\ Commit([Begin EXCEPT !.stdinData = text])

SelectScript(script) ==
    /\ component = "console"
    /\ Commit([Begin EXCEPT !.selectedScript = script])

(***************************************************************************)
(* Lifecycle, user events and HTTP completions of the panel.  The buttons   *)
(* and the terminal take user events once the page is mounted.             *)
(***************************************************************************)
Mount ==
    /\ component = "panel"
    /\ ~mounted
    /\ Len(Released(Cur)) < MaxTransports
    /\ Commit(onMounted(Begin))

OnStart ==
    /\ component = "panel"
    /\ mounted
    /\ Commit(onStart(Begin))

OnStop ==
    /\ component = "panel"
    /\ mounted
    /\ Commit(onStop(Begin))

OnRestart ==
    /\ component = "panel"
    /\ mounted
    /\ Commit(onRestart(Begin))

OnUpdate ==
    /\ component = "panel"
    /\ mounted
    /\ Commit(onUpdate(Begin))

TermData(data) ==
    /\ component = "panel"
    /\ mounted
    /\ Commit(term_onData(Begin, data))

\* The requests are answered in any order: the response that arrives is
\* that of the request issued last (newest), or that of an earlier one.
OlderInflight == inflight - (IF latest = "pending" THEN 1 ELSE 0)

StatusResponse(outcome) ==
    /\ component = "panel"
    /\ inflight > 0
    /\ \E newest \in BOOLEAN :
          /\ IF newest THEN latest = "pending" ELSE OlderInflight > 0
          /\ LET resumed == checkStatus_resume(Begin, getStatus(outcome))
             IN  Commit([resumed EXCEPT !.latest = IF newest THEN resumed.status ELSE @])

Next ==
    \/ \E t \in Sockets : SocketOpen(t)
    \/ \E t \in Sockets, data \in RawFrames : SocketMessage(t, data)
    \/ \E t \in Sockets, failed \in BOOLEAN : SocketClose(t, failed)
    \/ Connect
    \/ Disconnect
    \/ \E confirmed \in BOOLEAN : StartScript(confirmed)
    \/ SendStdin
    \/ KillProcess
    \/ \E text \in Inputs : TypeInput(text)
    \/ \E script \in allowedScripts : SelectScript(script)
    \/ Mount
    \/ OnStart
    \/ OnStop
    \/ OnRestart
    \/ OnUpdate
    \/ \E data \in TermKeys : TermData(data)
    \/ \E outcome \in Outcomes : StatusResponse(outcome)

Spec == Init /\ [][Next]_vars

TypeOK ==
    /\ component \in {"console", "panel"}
    /\ Len(readyState) <= MaxTransports
    /\ \A t \in Sockets : readyState[t] \in {"CONNECTING", "OPEN", "CLOSING", "CLOSED"}
    /\ ws \in {0} \cup Sockets
    /\ sessionState \in {"idle", "running", "exited"}
    /\ isConnected \in BOOLEAN
    /\ isWsConnected \in BOOLEAN
    /\ Len(lines) <= MaxLog
    /\ inflight \in 0..MaxInflight
    /\ latest \in {"none", "pending", "active", "inactive", "error"}
    /\ latest = "pending" => inflight > 0

(***************************************************************************)
(* Vocabulary of the properties.                                           *)
(***************************************************************************)
\* connectionState = Connected, as the component's flag says it
Connected == IF component = "console" THEN isConnected ELSE isWsConnected

\* The transition table of the session (phase, event) -> phase, by the
\* discriminator of a valid inbound frame
TablePhase(phase, type) ==
    CASE type = "ready" -> "idle"
      [] type = "started" -> "running"
      [] type \in {"stdout", "stderr"} -> phase
      [] type = "exit" -> "exited"
      [] type = "error" -> "exited"

FrameType(raw) == JSONparse(raw).o.type

LastLine == lines[Len(lines)]

\* C1: handling a valid inbound frame takes the phase to the phase the
\* transition table gives for the frame, in the console and in the panel
\* (so the phase after a sequence of frames is the fold of the table).
C1_PhaseFollowsTable ==
    [][\A t \in Sockets, raw \in ValidFrames :
          SocketMessage(t, raw) =>
              sessionState' = TablePhase(sessionState, FrameType(raw))]_vars

\* C2: handling the close event of a transport leaves phase = idle, the
\* connection flag false, and the script name and the exit code cleared,
\* whatever they were before.
C2_CloseResetsSession ==
    [][\A t \in Sockets, failed \in BOOLEAN :
          SocketClose(t, failed) =>
              /\ sessionState' = "idle"
              /\ ~Connected'
              /\ scriptName' = Null
              /\ exitCode' = Null]_vars

\* C3: in every reachable state, a connection flag that says Disconnected
\* implies phase = idle.
C3_DisconnectedIsIdle == ~Connected => sessionState = "idle"

\* C4: handling a backend error frame leaves phase = exited and records the
\* message as an error-kind entry, in the console and in the panel.
C4_ErrorFrameExits ==
    [][\A t \in Sockets :
          SocketMessage(t, RawError) =>
              /\ sessionState' = "exited"
              /\ component = "console" =>
                    /\ lines' = Append(lines, lines'[Len(lines')])
                    /\ lines'[Len(lines')].type = "error"
              /\ component = "panel" =>
                    /\ term' # <<>>
                    /\ term'[1].data = "\r\n" \o Red("[BACKEND ERROR] spawn failed")]_vars

\* The frames on the wire, as text, and the entries that report a send
\* that was dropped
KillFrame == [socket |-> ws, text |-> "{\"action\":\"kill\"}"]
StartFrame(script) ==
    [socket |-> ws, text |-> "{\"action\":\"start\",\"script\":\"" \o script \o "\"}"]
NotConnectedLine == Entry("error", "WebSocket is not connected.")
NotConnectedWrite ==
    [op |-> "writeln", data |-> "\r\n" \o Red("[Error] WebSocket is not connected.")]
Count(seq, e) == Cardinality({i \in DOMAIN seq : seq[i] = e})
Running == sessionState = "running"
\* the socket held is open
HeldOpen == ws # 0 /\ readyState[ws] = "OPEN"

UserCommand ==
    \/ \E confirmed \in BOOLEAN : StartScript(confirmed)
    \/ SendStdin
    \/ KillProcess
    \/ OnStart
    \/ OnStop
    \/ OnRestart
    \/ OnUpdate
    \/ \E data \in TermKeys : TermData(data)

\* C6: no user command changes the phase by itself; the phase changes only
\* in a step that handles an inbound message or the close of a transport.
C6_CommandsKeepPhase ==
    [][/\ UserCommand => sessionState' = sessionState
       /\ sessionState' # sessionState =>
            \E t \in Sockets :
                \/ \E raw \in RawFrames : SocketMessage(t, raw)
                \/ \E failed \in BOOLEAN : SocketClose(t, failed)]_vars

\* kill was sent while running, and the phase is still running
C6_KillSentStillRunning == Running /\ sent = <<KillFrame>>

\* C7: handling a frame that is not valid JSON appends exactly one
\* error-kind entry and leaves phase, script name, exit code and connection
\* flag as they were; the handler returns normally and the transport stays
\* as it was, open for the frames that follow.
C7_MalformedFrameIsLogged ==
    [][\A t \in Sockets :
          SocketMessage(t, RawNotJson) =>
              /\ sessionState' = sessionState
              /\ scriptName' = scriptName
              /\ exitCode' = exitCode
              /\ Connected' = Connected
              /\ readyState' = readyState /\ readyState'[t] = "OPEN"
              /\ ws' = ws
              /\ ~uncaught'
              /\ component = "console" =>
                    lines' = Append(lines, Entry("error", "Failed to parse JSON: {not json"))
              /\ component = "panel" =>
                    term' = <<[op |-> "writeln",
                               data |-> "\r\n" \o Red("[ERROR] Failed to parse JSON: {not json")]>>]_vars

\* a frame that is not JSON was logged while a script was running
C7_MalformedLoggedWhileRunning ==
    /\ component = "console"
    /\ Running
    /\ lines # <<>>
    /\ LastLine = Entry("error", "Failed to parse JSON: {not json")

\* C8: handling a frame that parses as JSON but carries no known
\* discriminator (an unknown type, no type field, or the value null)
\* produces a diagnostic error entry with the raw discriminator, leaves the
\* phase as it was and does not throw, in the console and in the panel.
C8_UnknownFrameIsDiagnosed ==
    [][\A t \in Sockets, raw \in {RawNull, RawNoType, RawBogus} :
          SocketMessage(t, raw) =>
              /\ ~uncaught'
              /\ sessionState' = sessionState
              /\ component = "console" =>
                    /\ Len(lines') = Len(lines) + 1
                    /\ lines'[Len(lines')].type = "error"
              /\ component = "panel" => term' # <<>>]_vars

\* A step of a user command that passes its gate and calls sendWsMessage
HandsMessage ==
    \/ KillProcess /\ Running
    \/ SendStdin /\ Running /\ stdinData # ""
    \/ StartScript(TRUE)
    \/ StartScript(FALSE) /\ ~Running
    \/ OnStart /\ ~Running
    \/ OnStop
    \/ OnRestart /\ ~Running
    \/ OnUpdate /\ ~Running
    \/ \E data \in TermKeys : TermData(data) /\ Running /\ isWsConnected

\* The not-connected entries the step added to what the user sees
Clears == \E confirmed \in BOOLEAN : StartScript(confirmed)

DropReports ==
    IF component = "panel" THEN Count(term', NotConnectedWrite)
    ELSE IF Clears THEN Count(lines', NotConnectedLine)
    ELSE Count(lines', NotConnectedLine) - Count(lines, NotConnectedLine)

\* C9: a frame goes on the transport only if the socket held is open when
\* sendWsMessage is called; otherwise nothing is transmitted and exactly one
\* error entry reports it; no step other than a user command transmits, so
\* a dropped frame is not sent when a transport opens later.
C9_SendOnlyWhenOpen ==
    [][/\ \A i \in DOMAIN sent' : sent'[i].socket = ws /\ HeldOpen
       /\ sent' # <<>> => UserCommand
       /\ HandsMessage =>
            IF HeldOpen THEN sent' # <<>> /\ DropReports = 0
                        ELSE sent' = <<>> /\ DropReports = 1]_vars

\* kill was dropped because the socket held was closing, and reported once
C9_DroppedKillReported ==
    /\ component = "console"
    /\ Running
    /\ ws # 0 /\ readyState[ws] = "CLOSING"
    /\ sent = <<>>
    /\ lines = <<Entry("info", "Sending KILL signal..."), NotConnectedLine>>

\* C10: the console's start action, when the phase is idle or exited, clears
\* the log and hands one start message with the selected script to
\* sendWsMessage; when the phase is running it asks for confirmation first:
\* denied, nothing is sent and log, phase and script name stay; accepted, the
\* log is cleared and the start message with the selected script is sent.
C10_StartGate ==
    [][\A confirmed \in BOOLEAN :
          StartScript(confirmed) =>
              IF Running /\ ~confirmed
              THEN /\ sent' = <<>>
                   /\ lines' = lines
                   /\ sessionState' = sessionState
                   /\ scriptName' = scriptName
              ELSE IF HeldOpen
              THEN /\ lines' = <<>>
                   /\ sent' = (IF Running THEN <<KillFrame>> ELSE <<>>)
                              \o <<StartFrame(selectedScript)>>
              ELSE /\ lines' = <<NotConnectedLine>>
                   /\ sent' = <<>>]_vars

\* start was confirmed while running: the log is empty and the start frame
\* with the selected script went out
C10_ConfirmedStartWhileRunning ==
    /\ component = "console"
    /\ Running
    /\ selectedScript = "update"
    /\ lines = <<>>
    /\ sent = <<KillFrame, StartFrame("update")>>

\* A step of a user command that its gate turns away
Rejected ==
    \/ SendStdin /\ (~Running \/ stdinData = "")
    \/ KillProcess /\ ~Running
    \/ OnStart /\ Running
    \/ OnRestart /\ Running
    \/ OnUpdate /\ Running

\* C11: a user action the gate rejects for the current phase (send-input or
\* kill while not running, send-input with empty input, start, restart or
\* update of the panel while running) transmits nothing and shows the user
\* an error entry: one more error-kind line in the console, a write to the
\* terminal in the panel.
C11_RejectedIsReported ==
    [][Rejected =>
          /\ sent' = <<>>
          /\ component = "console" =>
                /\ Len(lines') = Len(lines) + 1
                /\ lines'[Len(lines')].type = "error"
          /\ component = "panel" => term' # <<>>]_vars

OpenSockets == {t \in Sockets : readyState[t] = "OPEN"}

\* C12: in every reachable state at most one of the client's transports is
\* open, and it is the one held in ws: every other transport that still
\* exists was closed by connect (readyState CLOSING), where it delivers no
\* message and cannot open.
C12_OneOpenTransport ==
    /\ Cardinality(OpenSockets) <= 1
    /\ \A t \in Sockets : t # ws => readyState[t] = "CLOSING"

\* connect replaced an open transport, and the new one has opened
C12_ReplacedWhileOpen == readyState = <<"CLOSING", "OPEN">> /\ ws = 2

\* checkStatus was called in the step: one more query is on its way
IssuesQuery == inflight' = inflight + 1 /\ loadingAction' = Some("status")

\* C13: the panel issues a status query when it is mounted, in the handler
\* of every transport close, and in the handler of every frame that takes
\* the phase to exited, the exit frame and the backend's error frame alike.
C13_StatusQueryIssued ==
    [][component = "panel" =>
          /\ Mount => IssuesQuery
          /\ \A t \in Sockets, failed \in BOOLEAN :
                SocketClose(t, failed) => IssuesQuery
          /\ \A t \in Sockets, raw \in {RawExit, RawError} :
                (SocketMessage(t, raw) /\ sessionState' = "exited") => IssuesQuery]_vars

\* What the page shows apart from the status query's own fields
PanelRest == <<sessionState, isWsConnected, readyState, ws, mounted>>

\* C14: the completion of a status query changes neither the phase nor the
\* connection state: with a 200 response it sets status to the status of
\* the body and nothing else of the session, with any failure it sets
\* status to "error" and keeps the error it got in lastResponse; either way
\* the query is no longer pending.
C14_StatusCompletion ==
    [][\A outcome \in Outcomes :
          StatusResponse(outcome) =>
              /\ PanelRest' = PanelRest
              /\ sent' = <<>> /\ term' = <<>> /\ ~uncaught'
              /\ inflight' = inflight - 1
              /\ IF outcome.http = 200
                 THEN status' = outcome.data.status /\ lastResponse' = lastResponse
                 ELSE /\ status' = "error"
                      /\ lastResponse' = Some(getStatus(outcome))
                      /\ outcome.http # 0 =>
                            /\ lastResponse'[1].status = outcome.http
                            /\ lastResponse'[1].error = outcome.data.error
                            /\ lastResponse'[1].details = outcome.data.details]_vars

\* a query failed with HTTP 500 while a script was running on an open
\* transport: the status is error, the payload is kept, the phase stands
C14_FailedWhileRunning ==
    /\ component = "panel"
    /\ Running /\ isWsConnected
    /\ status = "error"
    /\ lastResponse # Null
    /\ Has(lastResponse[1], "status") /\ lastResponse[1].status = 500

\* C15: handling a ready frame, from whatever phase, leaves phase = idle
\* with the script name and the exit code cleared, so nothing of an earlier
\* run remains in the session.
C15_ReadyClearsRun ==
    [][\A t \in Sockets :
          (SocketMessage(t, RawReady) /\ component = "console") =>
              /\ sessionState' = "idle"
              /\ scriptName' = Null
              /\ exitCode' = Null]_vars

\* The started frame the backend answers a start of the script with
StartedFrame(script) == IF script = "start" THEN RawStartedStart ELSE RawStartedUpdate

\* C16: handling started{script}, from whatever phase, leaves phase =
\* running, the script name exactly the script of the frame (whatever name
\* was there before) and the exit code cleared; handling an exit frame sets
\* the exit code and leaves the script name as it was, through exited.
C16_StartedSetsScript ==
    [][\A t \in Sockets :
          /\ \A script \in allowedScripts :
                SocketMessage(t, StartedFrame(script)) =>
                    /\ sessionState' = "running"
                    /\ component = "console" =>
                          scriptName' = Some(script) /\ exitCode' = Null
          /\ (SocketMessage(t, RawExit) /\ component = "console") =>
                /\ sessionState' = "exited"
                /\ exitCode' = Some(0)
                /\ scriptName' = scriptName]_vars

\* start of "update" was sent, started{update} and exit were handled: the
\* script name is still there next to the exit code
C16_ExitedKeepsScript ==
    /\ component = "console"
    /\ sessionState = "exited"
    /\ selectedScript = "update"
    /\ scriptName = Some("update")
    /\ exitCode = Some(0)

\* The stdin frame that carries the line "stop"
StopLineFrame == [socket |-> ws, text |-> "{\"action\":\"stdin\",\"data\":\"stop\\n\"}"]

\* C17: the panel's stop action hands exactly one message to sendWsMessage,
\* chosen by the phase: while running a stdin frame with "stop" and a
\* newline, otherwise a start frame for the script "stop"; it is never a
\* kill frame, and the phase stays as it was.  (With the socket held not
\* open the message is dropped and reported, as every send is.)
C17_StopByPhase ==
    [][OnStop =>
          /\ sessionState' = sessionState
          /\ \A i \in DOMAIN sent' : sent'[i] # KillFrame
          /\ IF HeldOpen
             THEN sent' = <<IF Running THEN StopLineFrame ELSE StartFrame("stop")>>
             ELSE sent' = <<>> /\ Count(term', NotConnectedWrite) = 1]_vars

\* stop was pressed while running: the line "stop" went out, still running
C17_StopLineSent ==
    /\ component = "panel"
    /\ Running
    /\ sent = <<StopLineFrame>>

\* The transport held has closed, or none was created yet
Lost == ws = 0 \/ readyState[ws] = "CLOSED"
\* The operator asks for a connection: connect(), or mounting the page
Reconnects == Connect \/ Mount
\* new WebSocket() ran in the step
SocketCreated ==
    \/ Len(readyState') > Len(readyState)
    \/ Count(readyState', "CONNECTING") > Count(readyState, "CONNECTING")

\* C18: nothing is retried by itself.  A socket is created only in a step
\* of connect or of mounting; the handler of a close or an error creates no
\* socket, transmits nothing and leaves the connection flag false; and once
\* the transport held has closed, it stays closed, the flag stays false and
\* nothing is transmitted until the operator asks for a connection.
C18_NoAutomaticRetry ==
    [][/\ SocketCreated => Reconnects
       /\ \A t \in Sockets, failed \in BOOLEAN :
             SocketClose(t, failed) =>
                 (~SocketCreated /\ sent' = <<>> /\ ~Connected')
       /\ (Lost /\ ~Reconnects) =>
             (Lost' /\ ~Connected' /\ sent' = <<>>)]_vars

\* the console's transport failed while open: the error and the close are
\* logged, the socket held is closed and nothing has replaced it
C18_FailedAndLeftClosed ==
    /\ component = "console"
    /\ readyState = <<"CLOSED">> /\ ws = 1
    /\ ~isConnected
    /\ lines = <<Entry("error", "WebSocket connection error."),
                 Entry("info", "WebSocket Disconnected.")>>

\* C19: when the console's start action is confirmed while running, on an
\* open transport, the frames transmitted are the kill frame and then the
\* start frame of the selected script, both in that one step, in which the
\* phase stays running; the kill notice is logged before the log is cleared,
\* so the log is empty when the start frame goes out and after the step.
C19_KillThenStart ==
    [][(StartScript(TRUE) /\ Running /\ HeldOpen) =>
          /\ Len(sent') = 2
          /\ sent'[1] = KillFrame
          /\ sent'[2] = StartFrame(selectedScript)
          /\ sessionState' = "running"
          /\ lines' = <<>>]_vars

\* a restart of the running script "start" was confirmed with lines in the
\* log: kill and start went out, the log is empty, the phase still running
C19_RestartedWhileRunning ==
    /\ component = "console"
    /\ Running
    /\ scriptName = Some("start")
    /\ selectedScript = "start"
    /\ lines = <<>>
    /\ sent = <<KillFrame, StartFrame("start")>>

\* An event of a transport that connect has replaced: the socket is not
\* the one held in ws
Stale(t) == t # ws

\* C20: the callbacks of a transport that connect has replaced do not touch
\* the session of the transport held: while the held transport is open, the
\* close event of an older one leaves the connection flag and the phase as
\* they were; and the flag is never false while the transport held is open.
C20_StaleCallbacksIgnored ==
    [][/\ \A t \in Sockets, failed \in BOOLEAN :
             (SocketClose(t, failed) /\ Stale(t) /\ HeldOpen) =>
                 /\ Connected' = Connected
                 /\ sessionState' = sessionState
       /\ HeldOpen' => Connected']_vars

\* The echo of the input the console logs for a line it sent
EchoLine(text) == Entry("info", "> " \o text)

\* C21: the console's send-input action, past its gate, appends the echo of
\* the input and clears the input buffer only if the stdin frame (the input
\* and a newline) was transmitted; with the socket held not open, no echo
\* of the input is logged and the input stays in the buffer.
C21_EchoOnlyWhenSent ==
    [][(SendStdin /\ Running /\ stdinData # "") =>
          IF HeldOpen
          THEN /\ Len(sent') = 1
               /\ lines' = Append(lines, EchoLine(stdinData))
               /\ stdinData' = ""
          ELSE /\ sent' = <<>>
               /\ Count(lines', EchoLine(stdinData)) = Count(lines, EchoLine(stdinData))
               /\ stdinData' = stdinData]_vars

\* C22: with several status queries in flight and their responses arriving
\* in any order, loadingAction is 'status' as long as a query is
\* outstanding, and once none is outstanding the status shown is the
\* result of the query that was issued last.
C22_LatestQueryWins ==
    /\ inflight > 0 => loadingAction = Some("status")
    /\ (inflight = 0 /\ latest # "none") => status = latest

====
